---- MODULE Spec2Model ----
(***************************************************************************)
(* Model of the keyword-annotation utilities:                              *)
(*   utils/prepare_data.py   "prepare": join biographies with model        *)
(*                           outputs, sample, build the candidate lists,   *)
(*                           overwrite the task file                       *)
(*   utils/add_samples.py    "append": the same with the ids of the        *)
(*                           existing task file excluded, appending to it  *)
(*   utils/compute_annotation_overlap.py   "score": per-instance overlap   *)
(*                           metrics, per-annotator and overall aggregates *)
(* Input files are read one entry per step, in file order, so a step is    *)
(* one iteration of the loop that consumes the entry.  Display fields      *)
(* (name, biography, text) are copied through by the code and take part in *)
(* no decision; they are left out of the records.  The metrics are exact   *)
(* rationals; the "_std" entries of an aggregate (square roots) are left   *)
(* out.                                                                    *)
(***************************************************************************)
EXTENDS Integers, Sequences, FiniteSets, TLC

\* ------------------------------------------------------------- bounds
MaxKw == 3
MaxBio == 2
MaxModel == 2
MaxSample == 2
MaxPool == 3
MaxOrig == 2
MaxAnn == 3

\* ------------------------------------------------------------- values
Ids == {"a", "b"}
Users == {"u1", "u2"}
Keywords == {"k1", "k2", "k3"}
Null == "null"
Absent == "absent"
Sentinel == "None of the above"

Range(s) == {s[i] : i \in 1..Len(s)}
Count(s, x) == Cardinality({i \in 1..Len(s) : s[i] = x})
Min(x, y) == IF x < y THEN x ELSE y
Front(s) == SubSeq(s, 1, Len(s) - 1)

\* keyword lists a model output may carry: empty, single, repeated, distinct
SampleLists == {<<>>, <<"k1">>, <<"k2">>, <<"k1", "k1">>, <<"k2", "k3">>,
                <<"k1", "k2", "k3">>, <<"k1", "k2", "k1">>,
                <<"k1", "k2", "k3", "k2">>}
KeywordLists == {s \in SampleLists : Len(s) <= MaxKw}

\* a biography entry: the two identifier fields read with .get(); Null stands
\* for a missing, null or empty field (all falsy)
BioEntries == [character_json : Ids \cup {Null}, id : Ids \cup {Null}]
\* a model-output entry: item['character_json'] (Absent: the key is missing,
\* Null: null or empty) and personality_keywords.English (<<>> also stands
\* for a missing field)
ModelEntries == [character_json : Ids \cup {Null, Absent}, English : KeywordLists]

\* a record of a task file written by an earlier run
ExistingRow(i) == [id |-> i, candidates |-> <<"k1", Sentinel>>, model_keywords |-> <<"k1">>]
ExistingFiles == {<<>>, <<ExistingRow("a")>>, <<ExistingRow("b")>>,
                  <<ExistingRow("a"), ExistingRow("b")>>}

VARIABLES mode, pc, file, sample_size, candidate_pool_size, used_ids,
          model_lookup, model_read, bio_read, char_id, joined_data,
          all_keywords_pool, sampled_data, rows, distractors, warnings,
          original_lookup, orig_read, user_to_annotations,
          user_results, all_instance_metrics, overall,
          predicted, actual, metrics

argVars == <<mode, sample_size, candidate_pool_size>>
joinVars == <<used_ids, model_lookup, model_read, bio_read, char_id, joined_data,
              all_keywords_pool>>
rowVars == <<sampled_data, rows, distractors, warnings>>
scoreVars == <<original_lookup, orig_read, user_to_annotations,
               user_results, all_instance_metrics, overall>>
metricVars == <<predicted, actual, metrics>>
vars == <<pc, file, argVars, joinVars, rowVars, scoreVars, metricVars>>

\* ------------------------------------------------------------- random
\* random.sample(s, k): k elements of s taken from pairwise distinct positions
InjSeqs(n, k) == {p \in [1..k -> 1..n] : \A i, j \in 1..k : p[i] = p[j] => i = j}
Sample(s, k) == {[i \in 1..k |-> s[p[i]]] : p \in InjSeqs(Len(s), k)}
\* random.shuffle(s): any permutation of s
Shuffle(s) == Sample(s, Len(s))
\* list(a_set): the elements once each, in an order the code does not control
Listings(S) == {p \in [1..Cardinality(S) -> S] : Range(p) = S}


\* ------------------------------------------------------------- Joiner
\* char_id = bio_item.get('character_json') or bio_item.get('id')
CharId(bio_item) ==
    IF bio_item.character_json # Null THEN bio_item.character_json ELSE bio_item.id

\* model_lookup = {item['character_json']: item for item in model_data}, one
\* entry: a later entry replaces an earlier one under the same key
LookupWith(lookup, item) == (item.character_json :> item.English) @@ lookup

\* mutant: "if not char_id: continue" is missing
PrepareSkipsWithoutIdCheck(cid, lookup) ==
    \/ cid \notin DOMAIN lookup
    \/ lookup[cid] = <<>>

\* prepare_data.py: the entry joins nothing ("if not char_id: continue", the
\* key is not in model_lookup, or the English keyword list is empty)
PrepareSkips(cid, lookup) ==
    \/ cid = Null
    \/ cid \notin DOMAIN lookup
    \/ lookup[cid] = <<>>

\* mutant: used ids are not excluded
AppendSkipsIgnoringUsed(cid, used, lookup) == PrepareSkips(cid, lookup)

\* add_samples.py: as above, and "char_id in used_ids" skips as well
AppendSkips(cid, used, lookup) ==
    \/ cid = Null
    \/ cid \in used
    \/ cid \notin DOMAIN lookup
    \/ lookup[cid] = <<>>

\* the body of "for bio_item in bio_data" once the skip decision is taken
JoinBody(cid, skip) ==
    /\ char_id' = cid
    /\ bio_read' = bio_read + 1
    /\ IF skip
       THEN UNCHANGED <<joined_data, all_keywords_pool>>
       ELSE /\ joined_data' = Append(joined_data,
                   [id |-> cid, model_keywords |-> model_lookup[cid]])
            /\ all_keywords_pool' = all_keywords_pool \cup Range(model_lookup[cid])

\* ------------------------------------------------------------- Sampler
Sampled(s, w) == [sampled |-> s, warned |-> w]

\* prepare_data.py: sample only when more than sample_size are joined; the
\* other branch prints nothing
PrepareSampler(joined, k) ==
    IF Len(joined) > k
    THEN {Sampled(s, FALSE) : s \in Sample(joined, k)}
    ELSE {Sampled(joined, FALSE)}

\* add_samples.py: a shortfall prints a warning and uses all available
AppendSampler(joined, k) ==
    IF Len(joined) < k
    THEN {Sampled(joined, TRUE)}
    ELSE {Sampled(s, FALSE) : s \in Sample(joined, k)}

\* ------------------------------------------------------------- Candidate Builder
\* mutant: the pool is not filtered against the true keywords
PossibleDistractorsUnfiltered(pool, true_keywords) == pool

\* [k for k in all_keywords_list if k not in true_keywords]
PossibleDistractors(pool, true_keywords) == pool \ Range(true_keywords)

\* all of possible_distractors when there are too few, else a sample of them
DrawDistractors(pool, true_keywords, num_distractors) ==
    UNION {IF Len(pd) < num_distractors THEN {pd} ELSE Sample(pd, num_distractors) :
           pd \in Listings(PossibleDistractors(pool, true_keywords))}

\* mutant: random.choices, which draws with replacement
TruncateWithReplacement(true_keywords, size) == [1..size -> Range(true_keywords)]

\* random.sample(true_keywords, candidate_pool_size)
Truncate(true_keywords, size) == Sample(true_keywords, size)

Built(c, d, t) == [candidates |-> c, distractors |-> d, truncated |-> t]

\* the candidates of one item, up to and including random.shuffle(candidates)
BuildCandidates(true_keywords, pool, size) ==
    LET num_distractors == size - Len(true_keywords)
    IN IF num_distractors < 0
       THEN UNION {{Built(sh, <<>>, TRUE) : sh \in Shuffle(c)} :
                   c \in Truncate(true_keywords, size)}
       ELSE UNION {{Built(sh, d, FALSE) : sh \in Shuffle(true_keywords \o d)} :
                   d \in DrawDistractors(pool, true_keywords, num_distractors)}

Warning(kind, id) == [kind |-> kind, id |-> id]

\* one iteration of "for item in sampled_data"; sentinel says whether
\* candidates.append("None of the above") follows the shuffle
BuildBody(sentinel) ==
    LET item == sampled_data[Len(rows) + 1]
        true_keywords == item.model_keywords
    IN \E b \in BuildCandidates(true_keywords, all_keywords_pool, candidate_pool_size) :
         /\ warnings' = IF b.truncated
                        THEN warnings \cup {Warning("truncating", item.id)}
                        ELSE warnings
         /\ distractors' = IF b.truncated THEN distractors ELSE b.distractors
         /\ rows' = Append(rows,
                [id |-> item.id,
                 candidates |-> IF sentinel THEN Append(b.candidates, Sentinel)
                                ELSE b.candidates,
                 model_keywords |-> true_keywords])

\* ------------------------------------------------------------- idle parts
ScoreIdle ==
    /\ original_lookup = <<>>
    /\ orig_read = 0
    /\ user_to_annotations = <<>>
    /\ user_results = <<>>
    /\ all_instance_metrics = <<>>
    /\ overall = <<>>

MetricsIdle ==
    /\ predicted = {}
    /\ actual = {}
    /\ metrics = <<>>

BuildIdle ==
    /\ file = <<>>
    /\ sample_size = 0
    /\ candidate_pool_size = 0
    /\ used_ids = {}
    /\ model_lookup = <<>>
    /\ model_read = 0
    /\ bio_read = 0
    /\ char_id = Null
    /\ joined_data = <<>>
    /\ all_keywords_pool = {}
    /\ sampled_data = <<>>
    /\ rows = <<>>
    /\ distractors = <<>>
    /\ warnings = {}

\* ------------------------------------------------------------- prepare / append
\* the command line and the files as a run of prepare_data.py or
\* add_samples.py finds them
Init ==
    /\ mode \in {"prepare", "append"}
    /\ pc = IF mode = "prepare" THEN "load_model" ELSE "load_existing"
    /\ file \in ExistingFiles
    /\ sample_size \in 0..MaxSample
    /\ candidate_pool_size \in 0..MaxPool
    /\ used_ids = {}
    /\ model_lookup = <<>>
    /\ model_read = 0
    /\ bio_read = 0
    /\ char_id = Null
    /\ joined_data = <<>>
    /\ all_keywords_pool = {}
    /\ sampled_data = <<>>
    /\ rows = <<>>
    /\ distractors = <<>>
    /\ warnings = {}
    /\ ScoreIdle
    /\ MetricsIdle

\* add_samples.py: used_ids = {item['id'] for item in existing_data}
AppendLoadExisting ==
    /\ mode = "append" /\ pc = "load_existing"
    /\ used_ids' = {file[i].id : i \in 1..Len(file)}
    /\ pc' = "load_model"
    /\ UNCHANGED <<file, argVars, model_lookup, model_read, bio_read, char_id,
                   joined_data, all_keywords_pool, rowVars, scoreVars, metricVars>>

\* one entry of the model outputs enters model_lookup; an entry without the
\* 'character_json' key raises KeyError and ends the run
LoadModelBody ==
    /\ pc = "load_model"
    /\ model_read < MaxModel
    /\ \E item \in ModelEntries :
         IF item.character_json = Absent
         THEN /\ pc' = "crashed"
              /\ UNCHANGED <<model_lookup, model_read>>
         ELSE /\ model_lookup' = LookupWith(model_lookup, item)
              /\ model_read' = model_read + 1
              /\ pc' = pc
    /\ UNCHANGED <<file, argVars, used_ids, bio_read, char_id, joined_data,
                   all_keywords_pool, rowVars, scoreVars, metricVars>>

\* the model outputs are exhausted: the biographies are loaded next
LoadModelEnd ==
    /\ pc = "load_model"
    /\ pc' = "join"
    /\ UNCHANGED <<file, argVars, joinVars, rowVars, scoreVars, metricVars>>

PrepareLoadModelItem == mode = "prepare" /\ LoadModelBody
PrepareLoadModelDone == mode = "prepare" /\ LoadModelEnd
AppendLoadModelItem == mode = "append" /\ LoadModelBody
AppendLoadModelDone == mode = "append" /\ LoadModelEnd

PrepareJoinItem ==
    /\ mode = "prepare" /\ pc = "join"
    /\ bio_read < MaxBio
    /\ \E bio_item \in BioEntries :
         JoinBody(CharId(bio_item), PrepareSkips(CharId(bio_item), model_lookup))
    /\ UNCHANGED <<pc, file, argVars, used_ids, model_lookup, model_read,
                   rowVars, scoreVars, metricVars>>

AppendJoinItem ==
    /\ mode = "append" /\ pc = "join"
    /\ bio_read < MaxBio
    /\ \E bio_item \in BioEntries :
         JoinBody(CharId(bio_item),
                  AppendSkips(CharId(bio_item), used_ids, model_lookup))
    /\ UNCHANGED <<pc, file, argVars, used_ids, model_lookup, model_read,
                   rowVars, scoreVars, metricVars>>

\* the biographies are exhausted: the Sampler runs
SampleBody(choices) ==
    /\ pc = "join"
    /\ pc' = "build"
    /\ \E c \in choices :
         /\ sampled_data' = c.sampled
         /\ warnings' = IF c.warned THEN warnings \cup {Warning("shortfall", Null)}
                        ELSE warnings
    /\ UNCHANGED <<file, argVars, joinVars, rows, distractors, scoreVars, metricVars>>

PrepareSample == mode = "prepare" /\ SampleBody(PrepareSampler(joined_data, sample_size))
AppendSample == mode = "append" /\ SampleBody(AppendSampler(joined_data, sample_size))

PrepareBuildRow ==
    /\ mode = "prepare" /\ pc = "build"
    /\ Len(rows) < Len(sampled_data)
    /\ BuildBody(FALSE)
    /\ UNCHANGED <<pc, file, argVars, joinVars, sampled_data, scoreVars, metricVars>>

AppendBuildRow ==
    /\ mode = "append" /\ pc = "build"
    /\ Len(rows) < Len(sampled_data)
    /\ BuildBody(TRUE)
    /\ UNCHANGED <<pc, file, argVars, joinVars, sampled_data, scoreVars, metricVars>>

\* open(args.output, 'w'): the rows replace the file
PrepareWrite ==
    /\ mode = "prepare" /\ pc = "build"
    /\ Len(rows) = Len(sampled_data)
    /\ file' = rows
    /\ pc' = "done"
    /\ UNCHANGED <<argVars, joinVars, rowVars, scoreVars, metricVars>>

\* open(args.existing_file, 'a'): the rows follow the existing records
AppendWrite ==
    /\ mode = "append" /\ pc = "build"
    /\ Len(rows) = Len(sampled_data)
    /\ file' = file \o rows
    /\ pc' = "done"
    /\ UNCHANGED <<argVars, joinVars, rowVars, scoreVars, metricVars>>

Next ==
    \/ PrepareLoadModelItem
    \/ PrepareLoadModelDone
    \/ PrepareJoinItem
    \/ PrepareSample
    \/ PrepareBuildRow
    \/ PrepareWrite
    \/ AppendLoadExisting
    \/ AppendLoadModelItem
    \/ AppendLoadModelDone
    \/ AppendJoinItem
    \/ AppendSample
    \/ AppendBuildRow
    \/ AppendWrite

Spec == Init /\ [][Next]_vars


\* ------------------------------------------------------------- rationals
\* a float of the code is the exact rational [n, d] in lowest terms, n >= 0 < d
RECURSIVE GCD(_, _)
GCD(x, y) == IF y = 0 THEN x ELSE GCD(y, x % y)
Rat(n, d) == [n |-> n \div GCD(n, d), d |-> d \div GCD(n, d)]
Zero == Rat(0, 1)
One == Rat(1, 1)
RAdd(x, y) == Rat(x.n * y.d + y.n * x.d, x.d * y.d)
RMul(x, y) == Rat(x.n * y.n, x.d * y.d)
RDiv(x, y) == Rat(x.n * y.d, x.d * y.n)
RECURSIVE RSum(_)
RSum(s) == IF s = <<>> THEN Zero ELSE RAdd(s[1], RSum(Tail(s)))

\* ------------------------------------------------------------- Overlap Scorer
MetricKeys == {"precision", "recall", "f1", "jaccard"}

\* set(instance.get('model_keywords', []))
extract_model_keywords(instance) == Range(instance.model_keywords)

\* the keys of label_annotations.valid_keywords other than the sentinel
extract_annotated_keywords(instance) == instance.valid_keywords \ {Sentinel}

\* the metrics of two sets that are not both empty
Overlap(pred, act) ==
    LET intersection == pred \cap act
        union == pred \cup act
        precision == IF pred # {}
                     THEN Rat(Cardinality(intersection), Cardinality(pred))
                     ELSE Zero
        recall == IF act # {}
                  THEN Rat(Cardinality(intersection), Cardinality(act))
                  ELSE Zero
        f1 == IF RAdd(precision, recall).n > 0
              THEN RDiv(RMul(Rat(2, 1), RMul(precision, recall)),
                        RAdd(precision, recall))
              ELSE Zero
        jaccard == IF union # {}
                   THEN Rat(Cardinality(intersection), Cardinality(union))
                   ELSE Zero
    IN [precision |-> precision, recall |-> recall, f1 |-> f1, jaccard |-> jaccard]

\* mutant: the "both empty" case is not singled out
compute_metrics_without_empty_case(pred, act) == Overlap(pred, act)

compute_metrics(pred, act) ==
    IF pred = {} /\ act = {}
    THEN [precision |-> One, recall |-> One, f1 |-> One, jaccard |-> One]
    ELSE Overlap(pred, act)

\* ------------------------------------------------------------- Aggregator
\* result[key] stands for result[f'{key}_mean']; no keys for an empty list
compute_aggregate_metrics(all_metrics) ==
    IF all_metrics = <<>>
    THEN [key \in {} |-> Zero]
    ELSE [key \in MetricKeys |->
            RDiv(RSum([i \in 1..Len(all_metrics) |-> all_metrics[i][key]]),
                 Rat(Len(all_metrics), 1))]

\* annotated_instance.get('instance_id') or annotated_instance.get('id')
InstanceId(annotated_instance) ==
    IF annotated_instance.instance_id # Null THEN annotated_instance.instance_id
    ELSE annotated_instance.id

\* sorted(list(a_set)): the keywords in string order ("N" sorts before "k")
KeywordOrder == <<Sentinel, "k1", "k2", "k3">>
Sorted(S) == SelectSeq(KeywordOrder, LAMBDA k : k \in S)

\* the accumulators of compute_user_metrics before its loop
NoInstances == [user_metrics |-> <<>>, per_instance_results |-> <<>>,
                total_instances |-> 0]

\* one iteration of the loop of compute_user_metrics
ScoreInstance(acc, annotated_instance, lookup) ==
    LET instance_id == InstanceId(annotated_instance)
    IN IF instance_id = Null THEN acc
       ELSE IF instance_id \notin DOMAIN lookup THEN acc
       ELSE LET model_keywords == extract_model_keywords(lookup[instance_id])
                annotated_keywords == extract_annotated_keywords(annotated_instance)
                m == compute_metrics(annotated_keywords, model_keywords)
            IN [user_metrics |-> Append(acc.user_metrics, m),
                per_instance_results |-> Append(acc.per_instance_results,
                    [instance_id |-> instance_id,
                     model_keywords |-> Sorted(model_keywords),
                     annotated_keywords |-> Sorted(annotated_keywords),
                     metrics |-> m]),
                total_instances |-> acc.total_instances + 1]

RECURSIVE ScoreAll(_, _, _)
ScoreAll(acc, user_annotations, lookup) ==
    IF user_annotations = <<>> THEN acc
    ELSE ScoreAll(ScoreInstance(acc, Head(user_annotations), lookup),
                  Tail(user_annotations), lookup)

\* mutant: total_instances counts every annotated instance of the user
compute_user_metrics_counting_all(user_annotations, lookup) ==
    LET acc == ScoreAll(NoInstances, user_annotations, lookup)
    IN [total_instances |-> Len(user_annotations),
        aggregate_metrics |-> compute_aggregate_metrics(acc.user_metrics),
        per_instance |-> acc.per_instance_results]

compute_user_metrics(user_annotations, lookup) ==
    LET acc == ScoreAll(NoInstances, user_annotations, lookup)
    IN [total_instances |-> acc.total_instances,
        aggregate_metrics |-> compute_aggregate_metrics(acc.user_metrics),
        per_instance |-> acc.per_instance_results]

\* sorted(user_to_annotations.keys()), which is also the order of
\* user_results.values()
UserOrder == <<"u1", "u2">>
SortedUsers(S) == SelectSeq(UserOrder, LAMBDA u : u \in S)

\* all_instance_metrics: the metrics of every per_instance record, user by user
RECURSIVE AllInstanceMetrics(_, _)
AllInstanceMetrics(results, users) ==
    IF users = <<>> THEN <<>>
    ELSE [i \in 1..Len(results[Head(users)].per_instance) |->
             results[Head(users)].per_instance[i].metrics]
         \o AllInstanceMetrics(results, Tail(users))

\* mutant: the overall means are the means of the per-user means
MeanOfUserMeans(results) ==
    LET scored == SelectSeq(SortedUsers(DOMAIN results),
                            LAMBDA u : results[u].total_instances > 0)
    IN compute_aggregate_metrics([i \in 1..Len(scored) |->
                                     results[scored[i]].aggregate_metrics])

\* overall_metrics
OverallMetrics(results) ==
    compute_aggregate_metrics(AllInstanceMetrics(results, SortedUsers(DOMAIN results)))

\* total_all_instances = sum(r['total_instances'] for r in user_results.values())
RECURSIVE TotalInstances(_, _)
TotalInstances(results, users) ==
    IF users = <<>> THEN 0
    ELSE results[Head(users)].total_instances + TotalInstances(results, Tail(users))

\* ------------------------------------------------------------- score inputs
\* a record of the original task file: only id and model_keywords are read
OriginalRows == [id : Ids, model_keywords : {<<"k1">>, <<"k1", "k2">>}]
\* an annotated instance: the two identifier fields, the annotator and the
\* keys of label_annotations.valid_keywords
AnnotationEntries ==
    {e \in [instance_id : {Null, "a"}, id : {Null, "b"}, user_id : Users \cup {Null},
            valid_keywords : {{"k1"}, {Sentinel}}] :
       e.instance_id = Null \/ e.id = Null}

\* the annotated instances grouped so far
RECURSIVE Grouped(_, _)
Grouped(by_user, users) ==
    IF users = <<>> THEN 0
    ELSE Len(by_user[Head(users)]) + Grouped(by_user, Tail(users))

InitScore ==
    /\ mode = "score"
    /\ pc = "load_original"
    /\ BuildIdle
    /\ ScoreIdle
    /\ MetricsIdle

\* original_lookup = {item['id']: item for item in original_data}, one entry
LoadOriginalItem ==
    /\ mode = "score" /\ pc = "load_original"
    /\ orig_read < MaxOrig
    /\ orig_read' = orig_read + 1
    /\ \E item \in OriginalRows : original_lookup' = (item.id :> item) @@ original_lookup
    /\ UNCHANGED <<pc, file, argVars, joinVars, rowVars,
                   user_to_annotations, user_results, all_instance_metrics,
                   overall, metricVars>>

LoadOriginalDone ==
    /\ mode = "score" /\ pc = "load_original"
    /\ pc' = "group"
    /\ UNCHANGED <<file, argVars, joinVars, rowVars, scoreVars, metricVars>>

\* one iteration of "for annotated_instance in annotated_data"
GroupItem ==
    /\ mode = "score" /\ pc = "group"
    /\ Grouped(user_to_annotations, SortedUsers(DOMAIN user_to_annotations)) < MaxAnn
    /\ \E annotated_instance \in AnnotationEntries :
         LET user_id == annotated_instance.user_id
             sofar == IF user_id \in DOMAIN user_to_annotations
                      THEN user_to_annotations[user_id] ELSE <<>>
         IN IF user_id # Null
            THEN user_to_annotations' =
                    (user_id :> Append(sofar, annotated_instance)) @@ user_to_annotations
            ELSE UNCHANGED user_to_annotations
    /\ UNCHANGED <<pc, file, argVars, joinVars, rowVars, original_lookup, orig_read,
                   user_results, all_instance_metrics, overall, metricVars>>

GroupDone ==
    /\ mode = "score" /\ pc = "group"
    /\ pc' = "users"
    /\ UNCHANGED <<file, argVars, joinVars, rowVars, scoreVars, metricVars>>

\* one iteration of "for user_id in sorted(user_to_annotations.keys())"
ComputeUser ==
    /\ mode = "score" /\ pc = "users"
    /\ DOMAIN user_to_annotations # DOMAIN user_results
    /\ LET user_id == Head(SortedUsers(DOMAIN user_to_annotations \ DOMAIN user_results))
       IN user_results' =
            (user_id :> compute_user_metrics(user_to_annotations[user_id],
                                             original_lookup)) @@ user_results
    /\ UNCHANGED <<pc, file, argVars, joinVars, rowVars, original_lookup, orig_read,
                   user_to_annotations, all_instance_metrics, overall,
                   metricVars>>

\* the overall aggregate and the report
Overall ==
    /\ mode = "score" /\ pc = "users"
    /\ DOMAIN user_to_annotations = DOMAIN user_results
    /\ all_instance_metrics' =
          AllInstanceMetrics(user_results, SortedUsers(DOMAIN user_results))
    /\ overall' = [total_instances |->
                      TotalInstances(user_results, SortedUsers(DOMAIN user_results)),
                   aggregate_metrics |-> OverallMetrics(user_results)]
    /\ pc' = "done"
    /\ UNCHANGED <<file, argVars, joinVars, rowVars, original_lookup, orig_read,
                   user_to_annotations, user_results, metricVars>>

NextScore ==
    \/ LoadOriginalItem
    \/ LoadOriginalDone
    \/ GroupItem
    \/ GroupDone
    \/ ComputeUser
    \/ Overall

SpecScore == InitScore /\ [][NextScore]_vars

\* ------------------------------------------------------------- compute_metrics alone
InitMetrics ==
    /\ mode = "metrics"
    /\ pc = "call"
    /\ BuildIdle
    /\ ScoreIdle
    /\ predicted \in SUBSET Keywords
    /\ actual \in SUBSET Keywords
    /\ metrics = <<>>

CallComputeMetrics ==
    /\ mode = "metrics" /\ pc = "call"
    /\ metrics' = compute_metrics(predicted, actual)
    /\ pc' = "returned"
    /\ UNCHANGED <<file, argVars, joinVars, rowVars, scoreVars, predicted, actual>>

NextMetrics == CallComputeMetrics

SpecMetrics == InitMetrics /\ [][NextMetrics]_vars


\* ------------------------------------------------------------- properties
SubBag(s, t) == \A x \in Range(s) : Count(s, x) <= Count(t, x)
\* the pool keywords that are not true keywords of a row
Eligible(row) == all_keywords_pool \ Range(row.model_keywords)

\* C1 (as claimed): in prepare and in append, a row with n <= candidate_pool_size
\* true keywords and at least candidate_pool_size - n eligible distractors has
\* candidate_pool_size + 1 candidates, each true keyword exactly once, no
\* non-sentinel entry twice, and the sentinel last.
C1_Claim ==
    \A i \in 1..Len(rows) :
       LET c == rows[i].candidates
           tk == rows[i].model_keywords
       IN (/\ Len(tk) <= candidate_pool_size
           /\ Cardinality(Eligible(rows[i])) >= candidate_pool_size - Len(tk))
          => /\ Len(c) = candidate_pool_size + 1
             /\ \A k \in Range(tk) : Count(c, k) = 1
             /\ \A x \in Range(c) \ {Sentinel} : Count(c, x) = 1
             /\ c[Len(c)] = Sentinel

\* C2 (as claimed): in prepare and in append, a row with more than
\* candidate_pool_size true keywords has exactly candidate_pool_size candidates,
\* taken from distinct positions of the true keywords.
C2_Claim ==
    \A i \in 1..Len(rows) :
       Len(rows[i].model_keywords) > candidate_pool_size
       => /\ Len(rows[i].candidates) = candidate_pool_size
          /\ SubBag(rows[i].candidates, rows[i].model_keywords)

\* C2 (amended): a row with more than candidate_pool_size true keywords has
\* exactly candidate_pool_size entries taken from distinct positions of the
\* true keywords; in prepare they are the whole list, in append the sentinel
\* follows them as one more, last entry.
C2_Amended ==
    \A i \in 1..Len(rows) :
       LET c == rows[i].candidates
           tk == rows[i].model_keywords
       IN Len(tk) > candidate_pool_size
          => IF mode = "append"
             THEN /\ Len(c) = candidate_pool_size + 1
                  /\ c[Len(c)] = Sentinel
                  /\ SubBag(Front(c), tk)
             ELSE /\ Len(c) = candidate_pool_size
                  /\ SubBag(c, tk)

\* a truncated row of an append run keeps a keyword the input repeated
C2_Witness ==
    /\ mode = "append" /\ pc = "done"
    /\ \E i \in 1..Len(rows) :
          /\ rows[i].model_keywords = <<"k1", "k2", "k1">>
          /\ rows[i].candidates = <<"k1", "k1", Sentinel>>

\* C5: an append run adds its rows after the existing records, none of them
\* under an id an existing record has, and exactly num_samples of them when
\* that many joined characters are available.
C5_Theorem ==
    (mode = "append" /\ pc = "done")
    => LET old == Len(file) - Len(rows)
       IN /\ old >= 0
          /\ SubSeq(file, old + 1, Len(file)) = rows
          /\ {file[i].id : i \in 1..old} = used_ids
          /\ \A j \in (old + 1)..Len(file) : \A i \in 1..old : file[j].id # file[i].id
          /\ (Len(joined_data) >= sample_size => Len(rows) = sample_size)

\* the last biography read names a joinable character whose id is in use, and
\* the run still appended num_samples >= 1 rows
C5_Witness ==
    /\ mode = "append" /\ pc = "done"
    /\ char_id \in used_ids
    /\ char_id \in DOMAIN model_lookup
    /\ model_lookup[char_id] # <<>>
    /\ sample_size >= 1
    /\ Len(rows) = sample_size

\* C6 (as claimed): in prepare and in append the Sampler returns the whole
\* joined list with a warning when fewer than k are joined, and otherwise k
\* characters from distinct positions of it.
C6_Claim ==
    pc \in {"build", "done"}
    => IF Len(joined_data) < sample_size
       THEN /\ sampled_data = joined_data
            /\ Warning("shortfall", Null) \in warnings
       ELSE /\ Len(sampled_data) = sample_size
            /\ SubBag(sampled_data, joined_data)

\* a step that reads a biography entry whose id resolves through neither field
\* joins nothing and the run goes on
BioSkipStep ==
    (pc = "join" /\ bio_read' = bio_read + 1 /\ char_id' = Null)
    => /\ joined_data' = joined_data
       /\ all_keywords_pool' = all_keywords_pool
       /\ pc' = "join"

C9_Theorem ==
    (rows # <<>> /\ Len(rows[Len(rows)].model_keywords) <= candidate_pool_size)
    => LET row == rows[Len(rows)]
           tk == row.model_keywords
           c == IF mode = "append" THEN Front(row.candidates) ELSE row.candidates
       IN /\ Len(distractors) =
                Min(candidate_pool_size - Len(tk), Cardinality(Eligible(row)))
          /\ \A i, j \in 1..Len(distractors) : distractors[i] = distractors[j] => i = j
          /\ Range(distractors) \subseteq all_keywords_pool
          /\ Range(distractors) \cap Range(tk) = {}
          /\ \A x \in Keywords \cup {Sentinel} :
                Count(c, x) = Count(tk, x) + Count(distractors, x)

\* a finished run whose last row got two distractors
C9_Witness ==
    /\ pc = "done"
    /\ rows # <<>>
    /\ Len(rows[Len(rows)].model_keywords) = 1
    /\ candidate_pool_size = 3
    /\ Len(distractors) = 2

\* C10 (as claimed): after a run the records of the task file have pairwise
\* distinct ids.
C10_Claim ==
    pc = "done" => \A i, j \in 1..Len(file) : file[i].id = file[j].id => i = j

\* C3: compute_metrics(S, S) is 1.0 four times, for the empty S too, and
\* compute_metrics({}, S) is 0 four times for a non-empty S.
C3_Theorem ==
    (mode = "metrics" /\ pc = "returned")
    => /\ (predicted = actual => \A key \in MetricKeys : metrics[key] = One)
       /\ ((predicted = {} /\ actual # {})
           => \A key \in MetricKeys : metrics[key] = Zero)

C3_Witness ==
    /\ mode = "metrics" /\ pc = "returned"
    /\ predicted = {"k1", "k2"}
    /\ actual = predicted
    /\ metrics.jaccard = One

\* the sum of a metric over the per_instance records of the users
RECURSIVE MetricSum(_, _)
MetricSum(key, users) ==
    IF users = <<>> THEN Zero
    ELSE LET per == user_results[Head(users)].per_instance
         IN RAdd(RSum([i \in 1..Len(per) |-> per[i].metrics[key]]),
                 MetricSum(key, Tail(users)))

RECURSIVE ScoredCount(_)
ScoredCount(users) ==
    IF users = <<>> THEN 0
    ELSE Len(user_results[Head(users)].per_instance) + ScoredCount(Tail(users))

\* C4: the overall mean of a metric is its sum over the scored instances of
\* all annotators divided by their number; there is none when nothing is scored.
C4_Theorem ==
    (mode = "score" /\ pc = "done")
    => LET users == SortedUsers(DOMAIN user_results)
           count == ScoredCount(users)
       IN IF count = 0
          THEN DOMAIN overall.aggregate_metrics = {}
          ELSE \A key \in MetricKeys :
                  overall.aggregate_metrics[key] =
                     RDiv(MetricSum(key, users), Rat(count, 1))

\* u1 scored one instance with f1 = 0, u2 two with f1 = 1: the overall f1
\* mean is 2/3 (the mean of the two users' means is 1/2)
C4_Witness ==
    /\ mode = "score" /\ pc = "done"
    /\ DOMAIN user_results = {"u1", "u2"}
    /\ Len(user_results["u1"].per_instance) = 1
    /\ user_results["u1"].per_instance[1].metrics.f1 = Zero
    /\ Len(user_results["u2"].per_instance) = 2
    /\ \A i \in 1..2 : user_results["u2"].per_instance[i].metrics.f1 = One
    /\ overall.aggregate_metrics["f1"] = Rat(2, 3)

\* the annotated instances of a user whose id is a key of the original lookup
Scorable(u) ==
    {i \in 1..Len(user_to_annotations[u]) :
        InstanceId(user_to_annotations[u][i]) \in DOMAIN original_lookup}

RECURSIVE ScorableCount(_)
ScorableCount(users) ==
    IF users = <<>> THEN 0
    ELSE Cardinality(Scorable(Head(users))) + ScorableCount(Tail(users))

\* C8: an annotated instance whose id is no key of the original lookup is in no
\* per_instance list, in no aggregate and in no total_instances, and the overall
\* total_instances is the number of metrics records aggregated overall.
C8_Theorem ==
    (mode = "score" /\ pc = "done")
    => /\ \A u \in DOMAIN user_results :
            LET r == user_results[u]
            IN /\ r.total_instances = Cardinality(Scorable(u))
               /\ Len(r.per_instance) = Cardinality(Scorable(u))
               /\ \A i \in 1..Len(r.per_instance) :
                     r.per_instance[i].instance_id \in DOMAIN original_lookup
               /\ IF Scorable(u) = {}
                  THEN DOMAIN r.aggregate_metrics = {}
                  ELSE \A key \in MetricKeys :
                          r.aggregate_metrics[key] =
                             RDiv(MetricSum(key, <<u>>), Rat(Cardinality(Scorable(u)), 1))
       /\ overall.total_instances = Len(all_instance_metrics)
       /\ overall.total_instances = ScorableCount(SortedUsers(DOMAIN user_results))

\* a user annotated an instance that is not in the lookup and one that is
C8_Witness ==
    /\ mode = "score" /\ pc = "done"
    /\ \E u \in DOMAIN user_results :
          /\ \E i \in 1..Len(user_to_annotations[u]) :
                /\ InstanceId(user_to_annotations[u][i]) # Null
                /\ i \notin Scorable(u)
          /\ user_results[u].total_instances = 1
          /\ Len(user_to_annotations[u]) = 2
    /\ overall.total_instances = 2

====
